---- MODULE Spec2Model ----
(***************************************************************************)
(* Model of the WhatsApp notification service: the process-wide circuit    *)
(* breaker of app/middleware.py (a pybreaker.CircuitBreaker), the guarded  *)
(* OAuthService calls of whatsapp/oauth_service.py, the dispatch paths of *)
(* whatsapp/services.py and notifications/services.py (single sends, order *)
(* notifications, bulks, webhooks, scheduling and cancelling), the actions *)
(* of NotificationAdmin, and the inbound requests through the middleware.  *)
(***************************************************************************)
EXTENDS Integers, Sequences, FiniteSets, TLC

(***************************************************************************)
(* Bounds of the model.                                                    *)
(***************************************************************************)
NumThreads == 2
MaxCalls == 7
MaxTime == 120
TickStep == 30
MaxMessages == 2
MaxNotifications == 2
MaxBulk == 3
MaxStatuses == 1
MaxGuarded == 1

(***************************************************************************)
(* Program constants: app/middleware.py, api_circuit_breaker.              *)
(***************************************************************************)
fail_max == 5
reset_timeout == 60

\* app/settings.py, CIRCUIT_BREAKER_CONFIG['failure_threshold']: read from the
\* environment, with this default
DefaultFailureThreshold == 5

\* the values of CIRCUIT_BREAKER_FAILURE_THRESHOLD the deployments considered set
ThresholdSettings == {1, DefaultFailureThreshold}

Threads == 1..NumThreads
NoThread == 0

STATE_CLOSED == "closed"
STATE_OPEN == "open"
STATE_HALF_OPEN == "half-open"

(***************************************************************************)
(* Exception classes a unit of work can raise, each with its ancestors.    *)
(* requests.exceptions.Timeout and ConnectionError derive from Exception;  *)
(* SystemExit derives from BaseException only.                             *)
(***************************************************************************)
Raisable == {"Timeout", "ConnectionError", "SystemExit"}

Ancestors(e) ==
    CASE e = "Timeout" -> {"Timeout", "RequestException", "Exception", "BaseException"}
      [] e = "ConnectionError" -> {"ConnectionError", "RequestException", "Exception", "BaseException"}
      [] e = "SystemExit" -> {"SystemExit", "BaseException"}
      [] OTHER -> {e, "Exception", "BaseException"}

\* exclude=[Exception]: the classes whose instances do not count as failures
exclude == {"Exception"}

\* pybreaker: an error is a system error (a failure) unless its class is a
\* subclass of an excluded class
is_system_error(e) == \A x \in exclude : x \notin Ancestors(e)

VARIABLES
    state,        \* api_circuit_breaker.current_state
    fail_counter, \* api_circuit_breaker.fail_counter
    opened_at,    \* <<>> (None) or <<t>>: when the circuit was last opened
    lock,         \* holder of the breaker's re-entrant lock, NoThread if free
    now,          \* the clock, in seconds
    pc,           \* per caller: "idle", "waiting" (for the lock), "func" (unit of work running)
    result,       \* per caller: what its last guarded call gave it
    trial,        \* per caller: its running call made the OPEN -> HALF_OPEN transition
    window,       \* per caller: the opening (opened_at) it saw elapsed when it called
    consecFail,   \* consecutive units of work that raised since the last that returned
    calls,        \* guarded calls started so far
    configured,   \* WhatsAppService: phone_number_id and access_token are both set
    failure_threshold, \* settings.CIRCUIT_BREAKER_CONFIG['failure_threshold']
    verify_token, \* settings.WHATSAPP_VERIFY_TOKEN, "" when the environment leaves it unset
    deactivated,  \* names of the WhatsAppTemplate rows whose is_active was set to False
    messages,     \* the WhatsAppMessage table, in creation order
    notifications,\* the Notification table, in creation order
    last          \* the last dispatch operation: its inputs' outcome and what it returned

guard == <<state, fail_counter, opened_at, lock, now, pc, result, trial, window,
           consecFail, calls>>

\* what the deployment's environment fixes, and the template table, which the
\* dispatch operations only read
settings == <<configured, failure_threshold, verify_token, deactivated>>

store == <<settings, messages, notifications, last>>

vars == <<guard, store>>

breaker == <<state, fail_counter, opened_at>>

\* no dispatch operation has run yet
NoOp == [flip |-> FALSE, op |-> "-", ok |-> FALSE, info |-> "-", http |-> 0,
         provider |-> "-", msg |-> 0, notif |-> 0, template |-> "-", variables |-> {},
         missing |-> {}, ntype |-> "-", requests |-> <<>>, results |-> <<>>,
         status_code |-> 0,
         current_state |-> "-", failure_count |-> 0, phone_number |-> <<>>,
         pk |-> 0]

\* the state after start-up in a deployment whose environment sets the
\* failure threshold to one of thresholds and the verify token to one of tokens
InitWith(thresholds, tokens) ==
    /\ state = STATE_CLOSED
    /\ fail_counter = 0
    /\ opened_at = <<>>
    /\ lock = NoThread
    /\ now = 0
    /\ pc = [t \in Threads |-> "idle"]
    /\ result = [t \in Threads |-> "-"]
    /\ trial = [t \in Threads |-> FALSE]
    /\ window = [t \in Threads |-> <<>>]
    /\ consecFail = 0
    /\ calls = 0
    /\ configured \in BOOLEAN
    /\ failure_threshold \in thresholds
    /\ verify_token \in tokens
    /\ deactivated = {}
    /\ messages = <<>>
    /\ notifications = <<>>
    /\ last = NoOp

\* the environment leaves CIRCUIT_BREAKER_FAILURE_THRESHOLD unset
Init == InitWith({DefaultFailureThreshold}, {""})

\* the environment may set it
InitEnv == InitWith(ThresholdSettings, {""})

\* the environment may set WHATSAPP_VERIFY_TOKEN
InitVerify == InitWith({DefaultFailureThreshold}, {"", "enid-store-verify-token"})

(***************************************************************************)
(* CircuitOpenState.before_call: the call is refused while                 *)
(* now < opened_at + reset_timeout.                                        *)
(***************************************************************************)
\* mutant: refuses at exactly reset_timeout too
StillOpenInclusive(opened, t) == opened # <<>> /\ t <= opened[1] + reset_timeout

StillOpen(opened, t) == opened # <<>> /\ t < opened[1] + reset_timeout

\* mutant: the lock is released before the unit of work runs
LockReleasedForFunc(t) == NoThread

\* CircuitBreaker.call: "with self._lock: return self.state.call(func, ...)",
\* the lock stays with the caller while func runs
LockWhileFunc(t) == t

\* What a refused call gives its caller: pybreaker raises CircuitBreakerError;
\* the fallback_function attribute set on the breaker is never read.
default_fallback == "service_unavailable"

OnRefused == "CircuitBreakerError"

(***************************************************************************)
(* A caller invokes a guarded method (OAuthService.verify_token).          *)
(***************************************************************************)
Call(t) ==
    /\ pc[t] = "idle"
    /\ calls < MaxCalls
    /\ calls' = calls + 1
    /\ pc' = [pc EXCEPT ![t] = "waiting"]
    /\ result' = [result EXCEPT ![t] = "-"]
    /\ trial' = [trial EXCEPT ![t] = FALSE]
    /\ window' = [window EXCEPT ![t] =
            IF state = STATE_OPEN /\ ~StillOpen(opened_at, now) THEN opened_at ELSE <<>>]
    /\ UNCHANGED <<state, fail_counter, opened_at, lock, now, consecFail, store>>

(***************************************************************************)
(* The caller takes the lock and the current state's call() runs up to the *)
(* invocation of the unit of work.                                         *)
(***************************************************************************)
Enter(t) ==
    /\ pc[t] = "waiting"
    /\ lock = NoThread
    /\ IF state = STATE_OPEN /\ StillOpen(opened_at, now)
       THEN \* refused: the lock is released on the way out
            /\ pc' = [pc EXCEPT ![t] = "idle"]
            /\ result' = [result EXCEPT ![t] = OnRefused]
            /\ UNCHANGED <<state, lock, trial>>
       ELSE /\ state' = IF state = STATE_OPEN THEN STATE_HALF_OPEN ELSE state
            /\ trial' = [trial EXCEPT ![t] = (state = STATE_OPEN)]
            /\ lock' = LockWhileFunc(t)
            /\ pc' = [pc EXCEPT ![t] = "func"]
            /\ UNCHANGED result
    /\ UNCHANGED <<fail_counter, opened_at, now, window, consecFail, calls, store>>

\* mutant: a success in HALF_OPEN leaves the state and the counter alone
handle_success_noop(s, c) == [state |-> s, counter |-> c]

\* CircuitBreakerState._handle_success: reset_counter(), then on_success(),
\* which closes the circuit from HALF_OPEN
handle_success(s, c) ==
    [state |-> IF s = STATE_HALF_OPEN THEN STATE_CLOSED ELSE s, counter |-> 0]

(***************************************************************************)
(* The unit of work returns a value (the JSON body on 200, None otherwise).*)
(***************************************************************************)
Return(t, v) ==
    /\ pc[t] = "func"
    /\ state' = handle_success(state, fail_counter).state
    /\ fail_counter' = handle_success(state, fail_counter).counter
    /\ result' = [result EXCEPT ![t] = v]
    /\ pc' = [pc EXCEPT ![t] = "idle"]
    /\ lock' = IF lock = t THEN NoThread ELSE lock
    /\ consecFail' = 0
    /\ UNCHANGED <<opened_at, now, trial, window, calls, store>>

(***************************************************************************)
(* The unit of work raises e ("except Exception: ... raise" passes it on). *)
(* _handle_error: a system error increments the counter and runs the       *)
(* state's on_failure; any other error is handled as a success. A trip     *)
(* raises CircuitBreakerError in place of e.                               *)
(***************************************************************************)
Raise(t, e) ==
    /\ pc[t] = "func"
    /\ IF is_system_error(e)
       THEN IF state = STATE_HALF_OPEN \/ fail_counter + 1 >= fail_max
            THEN /\ state' = STATE_OPEN
                 /\ opened_at' = <<now>>
                 /\ fail_counter' = fail_counter + 1
                 /\ result' = [result EXCEPT ![t] = "CircuitBreakerError"]
            ELSE /\ fail_counter' = fail_counter + 1
                 /\ result' = [result EXCEPT ![t] = e]
                 /\ UNCHANGED <<state, opened_at>>
       ELSE /\ state' = handle_success(state, fail_counter).state
            /\ fail_counter' = handle_success(state, fail_counter).counter
            /\ result' = [result EXCEPT ![t] = e]
            /\ UNCHANGED opened_at
    /\ pc' = [pc EXCEPT ![t] = "idle"]
    /\ lock' = IF lock = t THEN NoThread ELSE lock
    /\ consecFail' = consecFail + 1
    /\ UNCHANGED <<now, trial, window, calls, store>>

Tick ==
    /\ now + TickStep <= MaxTime
    /\ now' = now + TickStep
    /\ UNCHANGED <<state, fail_counter, opened_at, lock, pc, result, trial, window,
                   consecFail, calls, store>>

(***************************************************************************)
(* whatsapp/services.py: the provider call and the send operations.        *)
(***************************************************************************)
\* what requests.post to the provider can do
ProviderOutcomes == {"200", "400", "Timeout", "ConnectionError"}

\* mutant: a failed HTTP call is made a second time
send_to_whatsapp_api_retrying(o) ==
    IF ~configured
    THEN [success |-> FALSE, http |-> 0, provider |-> "-"]
    ELSE [success |-> (o = "200"), http |-> IF o = "200" THEN 1 ELSE 2, provider |-> o]

\* WhatsAppService._send_to_whatsapp_api: no guard is consulted; every error
\* of the HTTP call is caught and returned as (False, error)
send_to_whatsapp_api(o) ==
    IF ~configured
    THEN [success |-> FALSE, http |-> 0, provider |-> "-"]
    ELSE [success |-> (o = "200"), http |-> 1, provider |-> o]

\* the WhatsAppTemplate table as it was loaded
WhatsAppTemplates ==
    { [name |-> "order_confirmation", category |-> "order_confirmation",
       is_active |-> TRUE, variables |-> {"customer_name", "order_id"}],
      [name |-> "welcome", category |-> "welcome_message", is_active |-> TRUE,
       variables |-> {}],
      [name |-> "order_delivered", category |-> "order_delivered",
       is_active |-> FALSE, variables |-> {"customer_name"}] }

TemplateNames == {"order_confirmation", "welcome", "order_delivered", "unknown"}
VariableNames == {"customer_name", "order_id"}

\* mutant: the lookup by name ignores is_active
TemplatesNamed(name) == {tp \in WhatsAppTemplates : tp.name = name}

\* WhatsAppTemplate.objects.filter(name=template_name, is_active=True)
ActiveTemplates(name) ==
    {tp \in WhatsAppTemplates : tp.name = name /\ tp.is_active /\ tp.name \notin deactivated}

\* mutant: the variables are not validated
missing_vars_none(template, variables) == {}

\* set(template.variables) - set(variables.keys())
missing_vars(template, variables) == template.variables \ variables

\* recipients, as the characters of the string: the customer's number, a
\* number that is too short, and one written with a separator
CustomerPhone == <<"+", "5", "2", "1", "5", "5", "1", "2", "3", "4", "5", "6", "7">>
PhoneNumbers ==
    {CustomerPhone, <<"1", "2", "3", "4", "5">>,
     <<"5", "5", "-", "1", "2", "3", "4", "5", "6", "7", "8">>}

Digits == {"0", "1", "2", "3", "4", "5", "6", "7", "8", "9"}

\* the RegexValidator of WhatsAppMessage.phone_number, ^\+?1?\d{9,15}$: an
\* optional "+", then 9 to 15 digits, or 16 digits of which the first is "1"
phone_regex(p) ==
    LET d == IF p # <<>> /\ Head(p) = "+" THEN Tail(p) ELSE p
    IN  /\ \A i \in 1..Len(d) : d[i] \in Digits
        /\ \/ Len(d) \in 9..15
           \/ Len(d) = 16 /\ Head(d) = "1"

\* the record's status after mark_as_sent / mark_as_failed; when the save
\* raises, the stored row keeps the status it was created with
StatusAfterSend(success, save_ok) ==
    IF ~save_ok THEN "pending" ELSE IF success THEN "sent" ELSE "failed"

\* the body shared by send_text_message and send_template_message from the
\* creation of the record on: create pending, call the provider, mark. The
\* record is created with objects.create, which runs no field validator.
CreateAndSend(mtype, o, save_ok) ==
    LET api == send_to_whatsapp_api(o)
        id == Len(messages) + 1
    IN  [message |-> [status |-> StatusAfterSend(api.success, save_ok),
                      whatsapp_message_id |-> IF api.success /\ save_ok THEN id ELSE 0,
                      message_type |-> mtype,
                      phone_number |-> CustomerPhone,
                      template |-> "-",
                      variables |-> {}],
         ok |-> api.success /\ save_ok,
         info |-> IF ~save_ok THEN "Error inesperado"
                  ELSE IF api.success THEN "enviado exitosamente"
                  ELSE "Error enviando mensaje",
         http |-> api.http,
         provider |-> api.provider,
         msg |-> id]

\* the record of a dispatch operation that has returned (ok, info)
Returned(op, ok, info, http, provider, msg, notif) ==
    [flip |-> ~last.flip, op |-> op, ok |-> ok, info |-> info, http |-> http,
     provider |-> provider, msg |-> msg, notif |-> notif, template |-> "-",
     variables |-> {}, missing |-> {}, ntype |-> "-", requests |-> <<>>,
     results |-> <<>>, status_code |-> 0, current_state |-> "-", failure_count |-> 0,
     phone_number |-> <<>>, pk |-> 0]

\* the same for send_template_message, with the template name and the variables
\* it was called with and the missing variables it reported
ReturnedTemplate(r, template_name, variables, missing) ==
    [r EXCEPT !.template = template_name, !.variables = variables, !.missing = missing]

send_text_message(phone_number, o, save_ok) ==
    /\ Len(messages) < MaxMessages
    /\ LET r == CreateAndSend("text", o, save_ok)
       IN  /\ messages' = Append(messages,
                               [r.message EXCEPT !.phone_number = phone_number])
           /\ last' = [Returned("send_text_message", r.ok, r.info, r.http, r.provider,
                                r.msg, 0) EXCEPT !.phone_number = phone_number]
    /\ UNCHANGED <<guard, settings, notifications>>

send_template_message(phone_number, template_name, variables, o, save_ok) ==
    /\ Len(messages) < MaxMessages
    /\ LET returns(ok, info, http, provider, msg, missing) ==
               [ReturnedTemplate(
                    Returned("send_template_message", ok, info, http, provider, msg, 0),
                    template_name, variables, missing)
                  EXCEPT !.phone_number = phone_number]
       IN  IF ActiveTemplates(template_name) = {}
           THEN /\ last' = returns(FALSE, "Plantilla no encontrada o inactiva",
                                   0, "-", 0, {})
                /\ UNCHANGED messages
           ELSE LET template == CHOOSE tp \in ActiveTemplates(template_name) : TRUE
                    missing == missing_vars(template, variables)
                    r == CreateAndSend("template", o, save_ok)
                IN  IF missing # {}
                    THEN /\ last' = returns(FALSE,
                                            "Variables faltantes para la plantilla",
                                            0, "-", 0, missing)
                         /\ UNCHANGED messages
                    ELSE /\ messages' = Append(messages,
                                [r.message EXCEPT !.phone_number = phone_number,
                                                  !.template = template_name,
                                                  !.variables = variables])
                         /\ last' = returns(r.ok, r.info, r.http, r.provider, r.msg, {})
    /\ UNCHANGED <<guard, settings, notifications>>

(***************************************************************************)
(* notifications/services.py: NotificationService.send_notification with   *)
(* _send_immediate_notification. The notification's channel is set from    *)
(* notification_type.                                                      *)
(***************************************************************************)
NotificationTypes == {"whatsapp", "email", "order_update"}

send_notification(notification_type, has_phone, scheduled, o, save_ok, notif_save_ok) ==
    /\ Len(notifications) < MaxNotifications
    /\ LET nid == Len(notifications) + 1
           sends == ~scheduled /\ notification_type = "whatsapp" /\ has_phone
           r == CreateAndSend("text", o, save_ok)
           success == sends /\ r.ok
           message == IF sends THEN r.info
                      ELSE IF notification_type # "whatsapp" THEN "Canal no disponible"
                      ELSE "Numero de telefono requerido para WhatsApp"
       IN  /\ sends => Len(messages) < MaxMessages
           /\ messages' = IF sends THEN Append(messages, r.message) ELSE messages
           /\ notifications' = Append(notifications,
                  [status |-> IF scheduled THEN "pending"
                              ELSE StatusAfterSend(success, notif_save_ok),
                   scheduled |-> scheduled])
           /\ last' = IF scheduled
                      THEN Returned("send_notification", TRUE,
                                    "Notificacion programada correctamente", 0, "-", 0, nid)
                      ELSE IF ~notif_save_ok
                      THEN Returned("send_notification", FALSE, "Error interno",
                                    IF sends THEN r.http ELSE 0,
                                    IF sends THEN r.provider ELSE "-",
                                    IF sends THEN r.msg ELSE 0, nid)
                      ELSE Returned("send_notification", success, message,
                                    IF sends THEN r.http ELSE 0,
                                    IF sends THEN r.provider ELSE "-",
                                    IF sends THEN r.msg ELSE 0, nid)
    /\ UNCHANGED <<guard, settings>>

\* the variables a call may pass for a template name: any of those a template
\* of that name declares
VariablesFor(name) ==
    SUBSET (VariableNames \cap
            UNION {tp.variables : tp \in {x \in WhatsAppTemplates : x.name = name}})

\* the inputs of an operation are drawn only where the operation reads them
OutcomesIf(reads) == IF reads /\ configured THEN ProviderOutcomes ELSE {"200"}
SavesIf(reads) == IF reads THEN BOOLEAN ELSE {TRUE}

\* send_template_message gets as far as creating its record
Validates(n, vs) == \E tp \in ActiveTemplates(n) : missing_vars(tp, vs) = {}

NextDispatch ==
    \/ \E o \in OutcomesIf(TRUE), save_ok \in BOOLEAN : send_text_message(CustomerPhone, o, save_ok)
    \/ \E n \in TemplateNames : \E vs \in VariablesFor(n) :
          \E o \in OutcomesIf(Validates(n, vs)), save_ok \in SavesIf(Validates(n, vs)) :
              send_template_message(CustomerPhone, n, vs, o, save_ok)
    \/ \E ty \in NotificationTypes, has_phone \in BOOLEAN, scheduled \in BOOLEAN :
          \E o \in OutcomesIf(~scheduled /\ ty = "whatsapp" /\ has_phone),
             save_ok \in SavesIf(~scheduled /\ ty = "whatsapp" /\ has_phone),
             notif_save_ok \in SavesIf(~scheduled) :
              send_notification(ty, has_phone, scheduled, o, save_ok, notif_save_ok)

(***************************************************************************)
(* whatsapp/services.py: send_order_notification and                       *)
(* send_bulk_order_notifications. The bulk operation runs the single one   *)
(* request after request, so both are computed on an explicit table.       *)
(***************************************************************************)
valid_types == {"order_confirmation", "order_status_update", "order_delivered",
                "order_cancelled", "payment_confirmed", "shipping_update"}

\* the notification types operations are called with: one with an active
\* template, one whose only template is inactive, one that is not a valid type
OrderTypes == {"order_confirmation", "order_delivered", "welcome_message"}

\* WhatsAppTemplate.objects.filter(category=notification_type, is_active=True)
ActiveByCategory(category) ==
    {tp \in WhatsAppTemplates :
        tp.category = category /\ tp.is_active /\ tp.name \notin deactivated}

\* _prepare_order_variables: the keys it sets for every order
prepare_order_variables ==
    {"order_id", "order_number", "order_date", "total_amount", "customer_name",
     "order_status"}

\* an operation that returns (False, info) before any record is created
Rejected(msgs, info) ==
    [messages |-> msgs, ok |-> FALSE, info |-> info, http |-> 0, provider |-> "-",
     msg |-> 0, template |-> "-"]

\* send_template_message on the table msgs
template_send(msgs, template_name, variables, o, save_ok) ==
    IF ActiveTemplates(template_name) = {}
    THEN Rejected(msgs, "Plantilla no encontrada o inactiva")
    ELSE LET template == CHOOSE tp \in ActiveTemplates(template_name) : TRUE
             r == CreateAndSend("template", o, save_ok)
             id == Len(msgs) + 1
         IN  IF missing_vars(template, variables) # {}
             THEN Rejected(msgs, "Variables faltantes para la plantilla")
             ELSE [messages |-> Append(msgs,
                       [r.message EXCEPT !.whatsapp_message_id =
                                              IF r.ok THEN id ELSE 0,
                                         !.template = template_name,
                                         !.variables = variables]),
                   ok |-> r.ok, info |-> r.info, http |-> r.http,
                   provider |-> r.provider, msg |-> id, template |-> template_name]

\* send_order_notification on the table msgs
order_send(msgs, notification_type, o, save_ok) ==
    IF notification_type \notin valid_types
    THEN Rejected(msgs, "Tipo de notificacion invalido")
    ELSE IF ActiveByCategory(notification_type) = {}
    THEN Rejected(msgs, "No hay plantilla activa para")
    ELSE LET template == CHOOSE tp \in ActiveByCategory(notification_type) : TRUE
         IN  template_send(msgs, template.name, prepare_order_variables, o, save_ok)

\* send_order_notification gets as far as creating its record
OrderSends(notification_type) ==
    \E tp \in ActiveByCategory(notification_type) :
        /\ notification_type \in valid_types
        /\ Validates(tp.name, prepare_order_variables)

send_order_notification(notification_type, o, save_ok) ==
    /\ Len(messages) < MaxMessages
    /\ LET r == order_send(messages, notification_type, o, save_ok)
       IN  /\ messages' = r.messages
           /\ last' = [Returned("send_order_notification", r.ok, r.info, r.http,
                                r.provider, r.msg, 0)
                          EXCEPT !.ntype = notification_type, !.template = r.template]
    /\ UNCHANGED <<guard, settings, notifications>>

\* an element of notifications_data that is not a dict: its .get raises
NotADict ==
    [is_dict |-> FALSE, complete |-> FALSE, notification_type |-> "-", o |-> "200",
     save_ok |-> TRUE]

\* a dict that lacks phone_number, order_data or notification_type
Incomplete ==
    [is_dict |-> TRUE, complete |-> FALSE, notification_type |-> "-", o |-> "200",
     save_ok |-> TRUE]

\* the notification types of the requests of a bulk: one with an active
\* template and one without
BulkTypes == {"order_confirmation", "order_delivered"}

\* what the provider does at a request's turn: it answers 200 or the call fails
BulkOutcomesIf(reads) == IF reads /\ configured THEN {"200", "Timeout"} ELSE {"200"}

\* the elements notifications_data is made of, each with what the provider and
\* the database do when its turn comes
BulkRequests ==
    {NotADict, Incomplete} \cup
    UNION { { [is_dict |-> TRUE, complete |-> TRUE, notification_type |-> ty,
               o |-> o, save_ok |-> save_ok] :
                 o \in BulkOutcomesIf(OrderSends(ty)),
                 save_ok \in SavesIf(OrderSends(ty)) } :
            ty \in BulkTypes }

\* one iteration of the loop of send_bulk_order_notifications
bulk_step(msgs, rq) ==
    IF ~rq.is_dict THEN Rejected(msgs, "Error: ")
    ELSE IF ~rq.complete THEN Rejected(msgs, "Datos incompletos para notificacion")
    ELSE order_send(msgs, rq.notification_type, rq.o, rq.save_ok)

\* mutant: the loop ends at the first request that fails
RemainingUntilFailure(reqs, r) == IF r.ok THEN Tail(reqs) ELSE <<>>

\* "for notification in notifications_data": the loop goes on to the next
\* request after a continue, an appended result or a caught exception alike
Remaining(reqs, r) == Tail(reqs)

RECURSIVE bulk_run(_, _, _)
bulk_run(reqs, msgs, results) ==
    IF reqs = <<>>
    THEN [messages |-> msgs, results |-> results]
    ELSE LET r == bulk_step(msgs, Head(reqs))
         IN  bulk_run(Remaining(reqs, r), r.messages,
                      Append(results, [ok |-> r.ok, info |-> r.info, http |-> r.http,
                                       provider |-> r.provider, msg |-> r.msg]))

send_bulk_order_notifications(notifications_data) ==
    /\ Len(messages) + Len(notifications_data) <= MaxBulk
    /\ LET b == bulk_run(notifications_data, messages, <<>>)
       IN  /\ messages' = b.messages
           /\ last' = [Returned("send_bulk_order_notifications", FALSE, "-", 0, "-", 0, 0)
                          EXCEPT !.requests = notifications_data,
                                 !.results = b.results]
    /\ UNCHANGED <<guard, settings, notifications>>

NextOrders ==
    \/ \E n \in TemplateNames : \E vs \in VariablesFor(n) :
          \E o \in OutcomesIf(Validates(n, vs)), save_ok \in SavesIf(Validates(n, vs)) :
              send_template_message(CustomerPhone, n, vs, o, save_ok)
    \/ \E ty \in OrderTypes :
          \E o \in OutcomesIf(OrderSends(ty)), save_ok \in SavesIf(OrderSends(ty)) :
              send_order_notification(ty, o, save_ok)

NextBulk ==
    \/ \E ty \in OrderTypes :
          \E o \in OutcomesIf(OrderSends(ty)), save_ok \in SavesIf(OrderSends(ty)) :
              send_order_notification(ty, o, save_ok)
    \/ \E n \in 0..(MaxBulk - Len(messages)) :
          \E notifications_data \in [1..n -> BulkRequests] :
              send_bulk_order_notifications(notifications_data)

(***************************************************************************)
(* app/middleware.py: the middleware every inbound request passes before   *)
(* its view. CircuitBreakerLoggingMiddleware only logs the state it reads. *)
(***************************************************************************)
\* mutant: reading the state of an OPEN circuit whose timeout has elapsed
\* moves it to HALF_OPEN
current_state_probing(s, opened, t) ==
    [value |-> s,
     stored |-> IF s = STATE_OPEN /\ ~StillOpen(opened, t) THEN STATE_HALF_OPEN ELSE s]

\* api_circuit_breaker.current_state: the name of the stored state, which the
\* read leaves as it is
current_state(s, opened, t) == [value |-> s, stored |-> s]

\* the HTTP response of a view, as the record of the operation
Responded(op, status_code, info) ==
    [Returned(op, status_code = 200, info, 0, "-", 0, 0) EXCEPT !.status_code = status_code]

\* mutant: the middleware lets every request through
PassThrough(s, response) == response

\* CircuitBreakerMiddleware.__call__ around a view that would answer response
CircuitBreakerMiddleware(s, response) ==
    IF s = STATE_OPEN
    THEN [response EXCEPT !.ok = FALSE, !.status_code = 503,
                          !.info = "Service temporarily unavailable",
                          !.current_state = "-", !.failure_count = 0]
    ELSE response

(***************************************************************************)
(* whatsapp/services.py: process_webhook with _update_message_status, and  *)
(* the view that receives the provider's webhooks.                         *)
(***************************************************************************)
\* the values of a status entry's 'status': the three the code acts on and one
\* it has no branch for
WebhookStatuses == {"sent", "delivered", "read", "failed"}

\* the values of a status entry's 'id': a provider id or none (0)
WebhookIds == 0..MaxMessages

\* WhatsAppMessage.objects.filter(whatsapp_message_id=message_id).first()
MessagesWithId(msgs, id) == {i \in 1..Len(msgs) : msgs[i].whatsapp_message_id = id}

\* mark_as_sent / mark_as_delivered / mark_as_read, chosen by the entry's
\* status; the current status of the message is not looked at
StatusAfterWebhook(current, status) ==
    IF status \in {"sent", "delivered", "read"} THEN status ELSE current

\* _update_message_status on the table msgs
update_message_status(msgs, entry) ==
    IF entry.id = 0 \/ MessagesWithId(msgs, entry.id) = {}
    THEN msgs
    ELSE LET i == CHOOSE k \in MessagesWithId(msgs, entry.id) : TRUE
         IN  [msgs EXCEPT ![i].status = StatusAfterWebhook(msgs[i].status, entry.status)]

\* the change of status an entry makes, <<>> if it makes none
StatusChange(msgs, entry) ==
    LET after == update_message_status(msgs, entry)
        changed == {i \in 1..Len(msgs) : after[i].status # msgs[i].status}
    IN  IF changed = {} THEN <<>>
        ELSE LET i == CHOOSE k \in changed : TRUE
             IN  <<[msg |-> i, from |-> msgs[i].status, to |-> after[i].status]>>

\* the loop of process_webhook over the status entries
RECURSIVE update_all(_, _, _)
update_all(statuses, msgs, changes) ==
    IF statuses = <<>>
    THEN [messages |-> msgs, changes |-> changes]
    ELSE update_all(Tail(statuses), update_message_status(msgs, Head(statuses)),
                    changes \o StatusChange(msgs, Head(statuses)))

\* process_webhook(webhook_data): False when webhook_data is not a dict (its
\* .get raises) or is not about a whatsapp_business_account
webhook_run(is_dict, object_ok, statuses) ==
    IF is_dict /\ object_ok
    THEN LET u == update_all(statuses, messages, <<>>)
         IN  [messages |-> u.messages, changes |-> u.changes, ok |-> TRUE]
    ELSE [messages |-> messages, changes |-> <<>>, ok |-> FALSE]

process_webhook(object_ok, statuses) ==
    /\ LET w == webhook_run(TRUE, object_ok, statuses)
       IN  /\ messages' = w.messages
           /\ last' = [Returned("process_webhook", w.ok, "-", 0, "-", 0, 0)
                          EXCEPT !.results = w.changes]
    /\ UNCHANGED <<guard, settings, notifications>>

\* WhatsAppWebhookView.post: process_webhook is handed the decoded body, a str
WhatsAppWebhookView_post(object_ok, statuses) ==
    /\ LET w == webhook_run(FALSE, object_ok, statuses)
           response == IF w.ok THEN Responded("WhatsAppWebhookView.post", 200, "ok")
                       ELSE Responded("WhatsAppWebhookView.post", 400,
                                      "Error procesando webhook")
       IN  /\ messages' = IF state = STATE_OPEN THEN messages ELSE w.messages
           /\ last' = [CircuitBreakerMiddleware(state, response)
                          EXCEPT !.results = IF state = STATE_OPEN THEN <<>>
                                             ELSE w.changes]
    /\ UNCHANGED <<guard, settings, notifications>>

\* WhatsAppService.verify_webhook; "None" is None
verify_webhook(mode, token, challenge) ==
    IF mode = "subscribe" /\ token = verify_token THEN challenge ELSE "None"

\* django.http.JsonResponse(data), safe=True: data that is not a dict raises
\* TypeError
JsonResponse(is_dict, op, status_code, body) ==
    IF is_dict THEN [raised |-> FALSE, response |-> Responded(op, status_code, body)]
    ELSE [raised |-> TRUE, response |-> Responded(op, 0, "TypeError")]

\* the query parameters of a verification request; "" is a parameter that is
\* missing or empty
Modes == {"", "subscribe", "unsubscribe"}
Tokens == {"", "enid-store-verify-token", "test_token"}
Challenges == {"", "1158201444"}

\* WhatsAppWebhookView.get (a plain View: no authentication)
WhatsAppWebhookView_get(mode, token, challenge) ==
    /\ LET op == "WhatsAppWebhookView.get"
           seen == current_state(state, opened_at, now).value
           verified == verify_webhook(mode, token, challenge)
           answer == IF "" \in {mode, token, challenge}
                     THEN JsonResponse(TRUE, op, 400, "Parametros faltantes")
                     ELSE IF verified \notin {"None", ""}
                     THEN JsonResponse(FALSE, op, 200, verified)
                     ELSE JsonResponse(TRUE, op, 403, "Verificacion fallida")
           \* except Exception: 500
           view == IF answer.raised THEN Responded(op, 500, "Error interno")
                   ELSE answer.response
       IN  last' = [CircuitBreakerMiddleware(seen, view)
                       EXCEPT !.requests = <<mode, token, challenge>>]
    /\ UNCHANGED <<guard, settings, messages, notifications>>

\* the webhooks considered: up to MaxStatuses status entries
Webhooks == UNION {[1..n -> [id : WebhookIds, status : WebhookStatuses]] : n \in 0..MaxStatuses}

NextMessages ==
    \/ \E o \in OutcomesIf(TRUE), save_ok \in BOOLEAN : send_text_message(CustomerPhone, o, save_ok)
    \/ \E object_ok \in BOOLEAN, statuses \in Webhooks :
          process_webhook(object_ok, statuses)
    \/ \E object_ok \in BOOLEAN, statuses \in Webhooks :
          WhatsAppWebhookView_post(object_ok, statuses)

(***************************************************************************)
(* notifications: schedule_notification, cancel_notification,              *)
(* Notification.cancel and the actions of NotificationAdmin.               *)
(***************************************************************************)
\* the NotificationTemplate table
NotificationTemplates == {[id |-> 1, is_active |-> TRUE], [id |-> 2, is_active |-> FALSE]}

\* the template_id values operations are called with (3 is no template's id)
NotificationTemplateIds == 1..3

\* mutant: a scheduled notification is created as sent
default_status_sent == "sent"

\* Notification.status, default='pending'
default_status == "pending"

\* Notification.objects.create(..., scheduled_at=scheduled_at)
Scheduled == [status |-> default_status, scheduled |-> TRUE]

schedule_notification(template_id, recipients) ==
    /\ Len(notifications) + recipients <= MaxNotifications
    /\ IF \E tp \in NotificationTemplates : tp.id = template_id /\ tp.is_active
       THEN /\ notifications' = notifications \o [i \in 1..recipients |-> Scheduled]
            /\ last' = [Returned("schedule_notification", TRUE,
                                 "Notificaciones programadas", 0, "-", 0, 0)
                           EXCEPT !.results = [i \in 1..recipients |->
                                                  Len(notifications) + i]]
       ELSE /\ notifications' = notifications
            /\ last' = Returned("schedule_notification", FALSE,
                                "Plantilla no encontrada o inactiva", 0, "-", 0, 0)
    /\ UNCHANGED <<guard, settings, messages>>

\* mutant: cancel() takes effect whatever the status
cancellable_any(status) == TRUE

\* Notification.cancel: "if self.status == 'pending'"
cancellable(status) == status = "pending"

\* Notification.cancel on a record
cancel(n) == IF cancellable(n.status) THEN [n EXCEPT !.status = "cancelled"] ELSE n

\* notification.cancel() called on a stored notification
Notification_cancel(id) ==
    /\ id \in 1..Len(notifications)
    /\ notifications' = [notifications EXCEPT ![id] = cancel(@)]
    /\ last' = Returned("Notification.cancel", TRUE, "-", 0, "-", 0, id)
    /\ UNCHANGED <<guard, settings, messages>>

\* NotificationService.cancel_notification
cancel_notification(id) ==
    /\ id \in 1..MaxNotifications
    /\ IF id \notin 1..Len(notifications)
       THEN /\ notifications' = notifications
            /\ last' = Returned("cancel_notification", FALSE,
                                "Notificacion no encontrada", 0, "-", 0, id)
       ELSE IF notifications[id].status # "pending"
       THEN /\ notifications' = notifications
            /\ last' = Returned("cancel_notification", FALSE,
                                "Solo se pueden cancelar notificaciones pendientes",
                                0, "-", 0, id)
       ELSE /\ notifications' = [notifications EXCEPT ![id] = cancel(@)]
            /\ last' = Returned("cancel_notification", TRUE,
                                "Notificacion cancelada correctamente", 0, "-", 0, id)
    /\ UNCHANGED <<guard, settings, messages>>

\* queryset.update(status=...) on the selected rows
update_status(rows, status) ==
    [i \in 1..Len(notifications) |->
        IF i \in rows THEN [notifications[i] EXCEPT !.status = status]
        ELSE notifications[i]]

\* the record of an admin action on queryset
AdminDone(op, queryset) ==
    [Returned(op, TRUE, "-", 0, "-", 0, 0) EXCEPT !.variables = queryset]

\* NotificationAdmin.mark_as_sent
admin_mark_as_sent(queryset) ==
    /\ notifications' = update_status(queryset, "sent")
    /\ last' = AdminDone("NotificationAdmin.mark_as_sent", queryset)
    /\ UNCHANGED <<guard, settings, messages>>

\* NotificationAdmin.mark_as_failed
admin_mark_as_failed(queryset) ==
    /\ notifications' = update_status(queryset, "failed")
    /\ last' = AdminDone("NotificationAdmin.mark_as_failed", queryset)
    /\ UNCHANGED <<guard, settings, messages>>

\* NotificationAdmin.cancel_notifications
admin_cancel_notifications(queryset) ==
    /\ LET pending == {i \in queryset : notifications[i].status = "pending"}
       IN  notifications' = update_status(pending, "cancelled")
    /\ last' = AdminDone("NotificationAdmin.cancel_notifications", queryset)
    /\ UNCHANGED <<guard, settings, messages>>

\* the selections an admin action runs on: at least one row
Querysets == (SUBSET (1..Len(notifications))) \ {{}}

NextNotifications ==
    \/ \E ty \in NotificationTypes, has_phone \in BOOLEAN, scheduled \in BOOLEAN :
          \E o \in OutcomesIf(~scheduled /\ ty = "whatsapp" /\ has_phone),
             save_ok \in SavesIf(~scheduled /\ ty = "whatsapp" /\ has_phone),
             notif_save_ok \in SavesIf(~scheduled) :
              send_notification(ty, has_phone, scheduled, o, save_ok, notif_save_ok)
    \/ \E template_id \in NotificationTemplateIds, recipients \in 0..MaxNotifications :
          schedule_notification(template_id, recipients)
    \/ \E id \in 1..MaxNotifications : Notification_cancel(id)
    \/ \E id \in 1..MaxNotifications : cancel_notification(id)
    \/ \E queryset \in Querysets : admin_mark_as_sent(queryset)
    \/ \E queryset \in Querysets : admin_mark_as_failed(queryset)
    \/ \E queryset \in Querysets : admin_cancel_notifications(queryset)

(***************************************************************************)
(* Inbound requests: CircuitBreakerMiddleware, then                        *)
(* CircuitBreakerLoggingMiddleware, then the view. Each of the three reads *)
(* api_circuit_breaker.current_state without taking the breaker's lock.    *)
(***************************************************************************)
\* the stored state after the reads a request makes: the first middleware's,
\* and the second's and the view's when the first lets the request through
AfterReads(views_read) ==
    LET first == current_state(state, opened_at, now)
        logged == current_state(first.stored, opened_at, now)
        viewed == IF views_read THEN current_state(logged.stored, opened_at, now)
                  ELSE logged
    IN  [seen |-> first.value,
         value |-> viewed.value,
         stored |-> IF first.value = STATE_OPEN THEN first.stored ELSE viewed.stored]

\* GET circuit-breaker/status/ (views.circuit_breaker_status); the view asks
\* for an authenticated user, as every view without permission_classes does
circuit_breaker_status(authenticated) ==
    /\ LET reads == AfterReads(authenticated)
           view == IF authenticated
                   THEN [Responded("circuit_breaker_status", 200, "-")
                           EXCEPT !.current_state = reads.value,
                                  !.failure_count = fail_counter]
                   ELSE Responded("circuit_breaker_status", 401, "Unauthorized")
       IN  /\ state' = reads.stored
           /\ last' = CircuitBreakerMiddleware(reads.seen, view)
    /\ UNCHANGED <<fail_counter, opened_at, lock, now, pc, result, trial, window,
                   consecFail, calls, settings, messages, notifications>>

\* GET status/ (ServiceStatusView, AllowAny)
ServiceStatusView_get ==
    /\ LET reads == AfterReads(FALSE)
           view == Responded("ServiceStatusView.get", 200,
                             IF configured THEN "active" ELSE "inactive")
       IN  /\ state' = reads.stored
           /\ last' = CircuitBreakerMiddleware(reads.seen, view)
    /\ UNCHANGED <<fail_counter, opened_at, lock, now, pc, result, trial, window,
                   consecFail, calls, settings, messages, notifications>>

\* requests arriving while caller 1 uses the guarded service
NextRequests ==
    \/ Call(1)
    \/ Enter(1)
    \/ \E v \in {"json", "None"} : Return(1, v)
    \/ \E e \in Raisable : Raise(1, e)
    \/ Tick
    \/ \E authenticated \in BOOLEAN : circuit_breaker_status(authenticated)
    \/ ServiceStatusView_get

(***************************************************************************)
(* The outbound HTTP calls side by side: the two send operations and the   *)
(* guarded OAuthService calls of caller 1, up to MaxGuarded of them.       *)
(***************************************************************************)
NextAttempts ==
    \/ \E o \in OutcomesIf(TRUE), save_ok \in BOOLEAN : send_text_message(CustomerPhone, o, save_ok)
    \/ \E n \in TemplateNames : \E vs \in VariablesFor(n) :
          \E o \in OutcomesIf(Validates(n, vs)), save_ok \in SavesIf(Validates(n, vs)) :
              send_template_message(CustomerPhone, n, vs, o, save_ok)
    \/ calls < MaxGuarded /\ Call(1)
    \/ Enter(1)
    \/ \E v \in {"json", "None"} : Return(1, v)
    \/ \E e \in Raisable : Raise(1, e)

(***************************************************************************)
(* The send operations called with any recipient.                          *)
(***************************************************************************)
NextRecipients ==
    \/ \E p \in PhoneNumbers, o \in OutcomesIf(TRUE), save_ok \in BOOLEAN :
          send_text_message(p, o, save_ok)
    \/ \E p \in PhoneNumbers, n \in TemplateNames : \E vs \in VariablesFor(n) :
          \E o \in OutcomesIf(Validates(n, vs)), save_ok \in SavesIf(Validates(n, vs)) :
              send_template_message(p, n, vs, o, save_ok)

(***************************************************************************)
(* whatsapp/views.py: WhatsAppTemplateDeleteView and ResendMessageView,    *)
(* both behind CircuitBreakerMiddleware and IsAuthenticated.               *)
(***************************************************************************)
\* DELETE of the template called name: perform_destroy marks the row inactive
WhatsAppTemplateDeleteView_delete(authenticated, name) ==
    /\ LET op == "WhatsAppTemplateDeleteView.delete"
           seen == current_state(state, opened_at, now).value
           found == \E tp \in WhatsAppTemplates : tp.name = name
           view == IF ~authenticated THEN Responded(op, 401, "Unauthorized")
                   ELSE IF ~found THEN Responded(op, 404, "Not found")
                   ELSE Responded(op, 204, "-")
       IN  /\ deactivated' = IF seen # STATE_OPEN /\ authenticated /\ found
                             THEN deactivated \cup {name} ELSE deactivated
           /\ last' = [CircuitBreakerMiddleware(seen, view) EXCEPT !.template = name]
    /\ UNCHANGED <<guard, configured, failure_threshold, verify_token, messages,
                   notifications>>

\* mutant: a message in any status is resent
resendable_any(status) == TRUE

\* ResendMessageView.post: message.status != 'failed' is answered 400
resendable(status) == status = "failed"

\* the request gets as far as the send operation
Resends(authenticated, pk) ==
    /\ state # STATE_OPEN
    /\ authenticated
    /\ pk \in 1..Len(messages)
    /\ resendable(messages[pk].status)

\* POST messages/<pk>/resend/
ResendMessageView_post(authenticated, pk, o, save_ok) ==
    /\ Len(messages) < MaxMessages
    /\ LET op == "ResendMessageView.post"
           seen == current_state(state, opened_at, now).value
           message == messages[pk]
           sent == IF message.template # "-"
                   THEN template_send(messages, message.template, message.variables,
                                      o, save_ok)
                   ELSE LET r == CreateAndSend("text", o, save_ok)
                        IN  [messages |-> Append(messages, r.message), ok |-> r.ok,
                             info |-> r.info, http |-> r.http, provider |-> r.provider,
                             msg |-> r.msg, template |-> "-"]
           \* the new record, if one was created, is addressed to the stored number
           recorded == IF Len(sent.messages) > Len(messages)
                       THEN [sent.messages EXCEPT ![Len(sent.messages)].phone_number =
                                                       message.phone_number]
                       ELSE messages
           view == IF ~authenticated THEN Responded(op, 401, "Unauthorized")
                   ELSE IF pk \notin 1..Len(messages)
                   THEN Responded(op, 404, "Mensaje no encontrado")
                   ELSE IF ~resendable(message.status)
                   THEN Responded(op, 400, "Solo se pueden reenviar mensajes fallidos")
                   ELSE [Responded(op, IF sent.ok THEN 200 ELSE 400,
                                   IF sent.ok THEN "Mensaje reenviado exitosamente"
                                   ELSE sent.info)
                           EXCEPT !.http = sent.http, !.provider = sent.provider,
                                  !.msg = sent.msg, !.template = sent.template,
                                  !.phone_number = message.phone_number]
       IN  /\ messages' = IF Resends(authenticated, pk) THEN recorded ELSE messages
           /\ last' = [(IF seen = STATE_OPEN
                         THEN CircuitBreakerMiddleware(seen, Responded(op, 0, "-"))
                         ELSE view) EXCEPT !.pk = pk]
    /\ UNCHANGED <<guard, settings, notifications>>

\* messages are sent, templates are deleted and messages are resent
NextResend ==
    \/ \E o \in OutcomesIf(TRUE), save_ok \in BOOLEAN :
          send_text_message(CustomerPhone, o, save_ok)
    \/ \E n \in TemplateNames : \E vs \in VariablesFor(n) :
          \E o \in OutcomesIf(Validates(n, vs)), save_ok \in SavesIf(Validates(n, vs)) :
              send_template_message(CustomerPhone, n, vs, o, save_ok)
    \/ \E authenticated \in BOOLEAN, name \in TemplateNames :
          WhatsAppTemplateDeleteView_delete(authenticated, name)
    \/ \E authenticated \in BOOLEAN, pk \in 1..MaxMessages :
          \E o \in OutcomesIf(Resends(authenticated, pk)),
             save_ok \in SavesIf(Resends(authenticated, pk)) :
              ResendMessageView_post(authenticated, pk, o, save_ok)

\* the webhook endpoint: verification requests and status webhooks
NextWebhook ==
    \/ \E mode \in Modes, token \in Tokens, challenge \in Challenges :
          WhatsAppWebhookView_get(mode, token, challenge)
    \/ \E o \in OutcomesIf(TRUE), save_ok \in BOOLEAN :
          send_text_message(CustomerPhone, o, save_ok)
    \/ \E object_ok \in BOOLEAN, statuses \in Webhooks :
          WhatsAppWebhookView_post(object_ok, statuses)

NextBreaker ==
    \/ \E t \in Threads : Call(t)
    \/ \E t \in Threads : Enter(t)
    \/ \E t \in Threads, v \in {"json", "None"} : Return(t, v)
    \/ \E t \in Threads, e \in Raisable : Raise(t, e)
    \/ Tick

Next ==
    \/ NextBreaker
    \/ NextDispatch
    \/ NextOrders
    \/ NextBulk
    \/ NextMessages
    \/ NextNotifications
    \/ NextWebhook
    \/ NextResend
    \/ NextRecipients
    \/ NextAttempts
    \/ NextRequests

Spec == Init /\ [][Next]_vars

\* a request of either kind is answered
Request ==
    \/ \E authenticated \in BOOLEAN : circuit_breaker_status(authenticated)
    \/ ServiceStatusView_get

\* a guarded call that was made runs to its end
Progress ==
    \/ Enter(1)
    \/ \E v \in {"json", "None"} : Return(1, v)
    \/ \E e \in Raisable : Raise(1, e)

\* the guarded calls alone
SpecBreaker == Init /\ [][NextBreaker]_vars

\* the dispatch operations alone
SpecDispatch == Init /\ [][NextDispatch]_vars

\* the template and order operations alone
SpecOrders == Init /\ [][NextOrders]_vars

\* the order operations, single and in bulk
SpecBulk == Init /\ [][NextBulk]_vars

\* the same in a deployment whose environment may set the failure threshold
SpecBulkEnv == InitEnv /\ [][NextBulk]_vars

\* sends and the provider's webhooks
SpecMessages == Init /\ [][NextMessages]_vars

\* the operations on notifications
SpecNotifications == Init /\ [][NextNotifications]_vars

\* the send operations and a few guarded calls
SpecAttempts == Init /\ [][NextAttempts]_vars

\* the guarded calls in a deployment whose environment may set the failure
\* threshold
SpecBreakerEnv == InitEnv /\ [][NextBreaker]_vars

\* the send operations with any recipient
SpecRecipients == Init /\ [][NextRecipients]_vars

\* sending, deleting templates and resending
SpecResend == Init /\ [][NextResend]_vars

\* the webhook endpoint in a deployment whose environment may set the verify
\* token
SpecWebhook == InitVerify /\ [][NextWebhook]_vars

\* inbound requests and one caller of the guarded service
SpecRequests == Init /\ [][NextRequests]_vars

\* the same where time passes, requests keep arriving and are answered, and a
\* guarded call that was made runs to its end; nothing obliges anyone to make a
\* guarded call, as no view or middleware makes one
SpecRecovery ==
    /\ Init
    /\ [][NextRequests]_vars
    /\ WF_vars(Tick)
    /\ WF_vars(Request)
    /\ WF_vars(Progress)

(***************************************************************************)
(* Properties of the guarded call (checked under SpecBreaker).             *)
(***************************************************************************)
\* caller t leaves the permission check in this step
Decided(t) == pc[t] = "waiting" /\ pc'[t] # "waiting"

\* caller t's unit of work ends in this step
Finished(t) == pc[t] = "func" /\ pc'[t] = "idle"

Returns == {"json", "None"}

\* the unit of work of t ended by raising (the caller gets the error itself or
\* CircuitBreakerError in its place)
FinishedRaising(t) == Finished(t) /\ result'[t] \notin Returns

InFlight == {t \in Threads : pc[t] = "func"}

\* C1: once fail_max or more consecutive units of work have raised and no call
\* is in flight, the circuit is OPEN (so a sixth failing call is not invoked).
C1_OpenAfterThreshold ==
    (consecFail >= fail_max /\ InFlight = {}) => state = STATE_OPEN

\* C2: a call decided while the circuit is OPEN and less than reset_timeout has
\* elapsed does not run its unit of work and gives the caller the fallback value.
C2_RefusedGetsFallback ==
    [][\A t \in Threads :
        (Decided(t) /\ state = STATE_OPEN /\ opened_at # <<>>
            /\ now - opened_at[1] < reset_timeout)
        => (pc'[t] = "idle" /\ result'[t] = default_fallback)]_vars

\* C3: a call decided while the circuit is OPEN runs as the trial, moving the
\* circuit to HALF_OPEN, when at least reset_timeout has elapsed since it
\* opened, and is refused with the circuit left OPEN when less has elapsed.
C3_TrialAfterTimeout ==
    [][\A t \in Threads :
        (Decided(t) /\ state = STATE_OPEN /\ opened_at # <<>>)
        => IF now - opened_at[1] >= reset_timeout
           THEN state' = STATE_HALF_OPEN /\ pc'[t] = "func" /\ trial'[t]
           ELSE state' = STATE_OPEN /\ pc'[t] = "idle"]_vars

\* C3 witness: a trial is running, entered exactly reset_timeout after the opening
C3_Witness ==
    \E t \in Threads :
        /\ pc[t] = "func" /\ trial[t] /\ state = STATE_HALF_OPEN
        /\ now = opened_at[1] + reset_timeout

C5_TrialSuccessCloses ==
    [][\A t \in Threads :
        (Finished(t) /\ state = STATE_HALF_OPEN /\ trial[t] /\ result'[t] \in Returns)
        => (state' = STATE_CLOSED /\ fail_counter' = 0)]_vars

\* C5 witness: a trial has returned after the circuit had counted fail_max failures
C5_Witness ==
    \E t \in Threads :
        /\ trial[t] /\ pc[t] = "idle" /\ result[t] \in Returns
        /\ state = STATE_CLOSED /\ fail_counter = 0 /\ opened_at # <<>>

\* C6: a trial whose unit of work raises returns the circuit to OPEN with the
\* opening time set to the time of that failure.
C6_TrialFailureReopens ==
    [][\A t \in Threads :
        (FinishedRaising(t) /\ state = STATE_HALF_OPEN /\ trial[t])
        => (state' = STATE_OPEN /\ opened_at' = <<now>>)]_vars

\* C7: every error raised by a guarded unit of work increments the failure
\* counter.
C7_EveryErrorCounts ==
    [][\A t \in Threads :
        FinishedRaising(t) => fail_counter' = fail_counter + 1]_vars

(***************************************************************************)
(* Properties of the dispatch operations (checked under SpecDispatch).     *)
(***************************************************************************)
\* a dispatch operation returns in this step
Dispatched == last'.flip # last.flip

SendOps == {"send_text_message", "send_template_message"}

\* C8: a provider call made by send_text_message or send_template_message is
\* made only when the circuit permits it, and its failure is counted against
\* the circuit.
C8_ProviderCallGuarded ==
    [][(Dispatched /\ last'.op \in SendOps /\ last'.http > 0)
        => /\ ~(state = STATE_OPEN /\ opened_at # <<>>
                    /\ now - opened_at[1] < reset_timeout)
           /\ last'.provider # "200"
                => (fail_counter' = fail_counter + 1 \/ state' = STATE_OPEN)]_vars

\* C9: after a synchronous send has returned, the record it created is sent
\* exactly when the returned flag is true and failed exactly when it is false.
C9_SyncSendSettlesRecord ==
    /\ (last.op \in SendOps /\ last.msg # 0)
        => /\ messages[last.msg].status = "sent" <=> last.ok
           /\ messages[last.msg].status = "failed" <=> ~last.ok
    /\ (last.op = "send_notification" /\ ~notifications[last.notif].scheduled)
        => /\ notifications[last.notif].status = "sent" <=> last.ok
           /\ notifications[last.notif].status = "failed" <=> ~last.ok

\* C10: send_template_message for an active template, with variables that lack
\* one the template declares, returns failure with the missing-variable
\* message, creates no record, makes no provider call and leaves the circuit
\* as it was.
C10_MissingVariableRejected ==
    [][(Dispatched /\ last'.op = "send_template_message"
          /\ \E tp \in ActiveTemplates(last'.template) :
                tp.variables \ last'.variables # {})
        => /\ ~last'.ok
           /\ last'.info = "Variables faltantes para la plantilla"
           /\ last'.missing # {}
           /\ last'.http = 0
           /\ messages' = messages
           /\ breaker' = breaker]_vars

\* C10 witness: order_confirmation was sent with customer_name only, after a
\* message had been stored
C10_Witness ==
    /\ last.op = "send_template_message" /\ last.template = "order_confirmation"
    /\ last.variables = {"customer_name"} /\ last.missing = {"order_id"}
    /\ ~last.ok /\ Len(messages) = 1

(***************************************************************************)
(* Properties of the template and order operations (checked under          *)
(* SpecOrders, SpecBulk and SpecBulkEnv).                                  *)
(***************************************************************************)
\* the template table holds an active template of this name
HasActiveNamed(name) == \E tp \in WhatsAppTemplates : tp.name = name /\ tp.is_active

\* the template table holds an active template of this category
HasActiveOfCategory(ty) ==
    \E tp \in WhatsAppTemplates : tp.category = ty /\ tp.is_active

\* C11: send_template_message for a name with no active template (missing or
\* inactive) and send_order_notification for a valid type with no active
\* template return failure, create no record and make no provider call.
C11_InactiveTemplateRejected ==
    [][(/\ Dispatched
        /\ \/ last'.op = "send_template_message" /\ ~HasActiveNamed(last'.template)
           \/ /\ last'.op = "send_order_notification"
              /\ last'.ntype \in valid_types
              /\ ~HasActiveOfCategory(last'.ntype))
        => /\ ~last'.ok
           /\ last'.info \in {"Plantilla no encontrada o inactiva",
                               "No hay plantilla activa para"}
           /\ last'.http = 0
           /\ last'.msg = 0
           /\ messages' = messages]_vars

\* C11 witness: the inactive template order_delivered was asked for by name,
\* with the variable it declares, after a message had been stored
C11_Witness ==
    /\ last.op = "send_template_message"
    /\ last.template = "order_delivered"
    /\ "customer_name" \in last.variables
    /\ ~last.ok
    /\ Len(messages) > 0

\* request rq of a bulk reaches the creation of a record
BulkSends(rq) ==
    /\ rq.is_dict /\ rq.complete
    /\ rq.notification_type \in valid_types
    /\ HasActiveOfCategory(rq.notification_type)

\* a bulk returns in this step
BulkDone == Dispatched /\ last'.op = "send_bulk_order_notifications"

\* C12: send_bulk_order_notifications returns one (ok, info) per request, in
\* the order of the requests: a request that is not a dict, is incomplete or
\* has no active template gives a failed entry without a record, every other
\* request gives the outcome of its own send, whatever the requests before it
\* did; the records that existed before are untouched and the new ones are
\* appended in the order of the requests.
C12_BulkOneResultEach ==
    [][BulkDone =>
        LET rq == last'.requests
            rs == last'.results
        IN  /\ Len(rs) = Len(rq)
            /\ \A i \in 1..Len(rq) :
                  IF BulkSends(rq[i])
                  THEN /\ rs[i].msg > Len(messages)
                       /\ rs[i].msg <= Len(messages')
                       /\ rs[i].ok <=> (configured /\ rq[i].o = "200" /\ rq[i].save_ok)
                       /\ rs[i].ok => messages'[rs[i].msg].status = "sent"
                  ELSE ~rs[i].ok /\ rs[i].msg = 0 /\ rs[i].http = 0
            /\ \A i, j \in 1..Len(rq) :
                  (i < j /\ BulkSends(rq[i]) /\ BulkSends(rq[j])) => rs[i].msg < rs[j].msg
            /\ Len(messages') =
                  Len(messages) + Cardinality({i \in 1..Len(rq) : BulkSends(rq[i])})
            /\ SubSeq(messages', 1, Len(messages)) = messages]_vars

\* C12 witness: on a table that held a record, a bulk whose first request
\* raised and whose second was sent
C12_Witness ==
    /\ last.op = "send_bulk_order_notifications"
    /\ Len(last.results) = 2
    /\ last.requests[1] = NotADict
    /\ ~last.results[1].ok
    /\ last.results[2].ok
    /\ last.results[2].msg = 2
    /\ messages[2].status = "sent"

\* C13: in a deployment with failure_threshold 1, a bulk of three sendable
\* requests whose first is sent and whose second fails at the provider leaves
\* the circuit OPEN, and its third request gets the fallback without a
\* provider call.
C13_BulkTripsCircuit ==
    [][(/\ BulkDone
        /\ failure_threshold = 1
        /\ Len(last'.requests) = 3
        /\ \A i \in 1..3 : BulkSends(last'.requests[i])
        /\ last'.results[1].ok
        /\ last'.results[2].http > 0 /\ last'.results[2].provider # "200")
        => /\ state' = STATE_OPEN
           /\ Len(last'.results) = 3
           /\ ~last'.results[3].ok
           /\ last'.results[3].http = 0
           /\ last'.results[3].info = default_fallback]_vars

(***************************************************************************)
(* Properties of the message records (checked under SpecMessages).         *)
(***************************************************************************)
\* the status changes of a WhatsAppMessage the lifecycle allows
AllowedTransitions ==
    {<<"pending", "sent">>, <<"pending", "failed">>, <<"pending", "cancelled">>,
     <<"sent", "delivered">>, <<"delivered", "read">>}

\* C14: every change of a WhatsAppMessage's status follows pending -> sent,
\* failed or cancelled, sent -> delivered, delivered -> read: no status entry
\* of a webhook moves a record backwards or from sent to read, and no other
\* operation changes the status of a record it did not create.
C14_StatusMovesForward ==
    [][Dispatched =>
        /\ \A k \in 1..Len(last'.results) :
              last'.op \in {"process_webhook", "WhatsAppWebhookView.post"}
                => <<last'.results[k].from, last'.results[k].to>> \in AllowedTransitions
        /\ last'.op \notin {"process_webhook", "WhatsAppWebhookView.post"}
              => \A i \in 1..Len(messages) : messages'[i].status = messages[i].status]_vars

(***************************************************************************)
(* Properties of the notification records (checked under                   *)
(* SpecNotifications).                                                     *)
(***************************************************************************)
CancelOps ==
    {"Notification.cancel", "cancel_notification",
     "NotificationAdmin.cancel_notifications"}

\* the stored notifications whose status differs after this step
StatusChanged ==
    {i \in 1..Len(notifications) : notifications'[i].status # notifications[i].status}

\* C15: a cancel takes effect only on a pending notification: after
\* Notification.cancel(), cancel_notification or the admin's cancel action the
\* only records changed are targeted ones that were pending, now cancelled;
\* every targeted pending record is cancelled, and cancel_notification
\* reports success exactly when its target existed and was pending.
C15_CancelOnlyPending ==
    [][(Dispatched /\ last'.op \in CancelOps) =>
        LET targets == IF last'.op = "NotificationAdmin.cancel_notifications"
                       THEN last'.variables
                       ELSE {last'.notif} \cap (1..Len(notifications))
        IN  /\ Len(notifications') = Len(notifications)
            /\ StatusChanged = {i \in targets : notifications[i].status = "pending"}
            /\ \A i \in StatusChanged : notifications'[i].status = "cancelled"
            /\ last'.op = "cancel_notification"
                  => (last'.ok <=> \E i \in targets : notifications[i].status = "pending")]_vars

\* C15 witness: cancel_notification was refused for a notification that had
\* been sent, and left it sent
C15_Witness ==
    /\ last.op = "cancel_notification"
    /\ ~last.ok
    /\ last.info = "Solo se pueden cancelar notificaciones pendientes"
    /\ last.notif \in 1..Len(notifications)
    /\ notifications[last.notif].status = "sent"

\* C16: failed and cancelled are terminal for a Notification: no operation,
\* the admin's mark_as_sent, mark_as_failed and cancel_notifications included,
\* changes the status of a record that is failed or cancelled.
C16_FailedCancelledTerminal ==
    [][\A i \in 1..Len(notifications) :
          notifications[i].status \in {"failed", "cancelled"}
            => notifications'[i].status = notifications[i].status]_vars

\* the notifications created in this step
Created == (Len(notifications) + 1)..Len(notifications')

\* C17: send_notification called with scheduled_at, and schedule_notification
\* for an active template, return success having created their notifications
\* (one per recipient) pending and scheduled, without a provider call, without
\* a message record and without touching the notifications stored before.
C17_ScheduledStaysPending ==
    [][(/\ Dispatched
        /\ \/ /\ last'.op = "send_notification"
              /\ last'.info = "Notificacion programada correctamente"
           \/ last'.op = "schedule_notification" /\ last'.ok)
        => /\ last'.ok
           /\ last'.http = 0
           /\ messages' = messages
           /\ SubSeq(notifications', 1, Len(notifications)) = notifications
           /\ last'.op = "send_notification" => Created = {last'.notif}
           /\ last'.op = "schedule_notification"
                => Created = {last'.results[k] : k \in 1..Len(last'.results)}
           /\ \A i \in Created :
                 notifications'[i].status = "pending" /\ notifications'[i].scheduled]_vars

\* C17 witness: schedule_notification has just created two notifications,
\* both pending
C17_Witness ==
    /\ last.op = "schedule_notification"
    /\ last.ok
    /\ Len(last.results) = 2
    /\ \A k \in 1..2 :
          /\ notifications[last.results[k]].status = "pending"
          /\ notifications[last.results[k]].scheduled

(***************************************************************************)
(* Properties of the inbound requests (checked under SpecRequests).        *)
(***************************************************************************)
RequestOps == {"circuit_breaker_status", "ServiceStatusView.get"}

\* an inbound request is answered in this step
Answered == Dispatched /\ last'.op \in RequestOps

\* C18: reading the circuit state is pure: a request answered by the status
\* endpoint or turned away by CircuitBreakerMiddleware, with the read of
\* CircuitBreakerLoggingMiddleware in between, leaves the state, the failure
\* counter, the opening time, the lock and every running call as they were.
C18_ReadsArePure ==
    [][Answered => UNCHANGED guard]_vars

\* C18 witness: the status endpoint was asked while the circuit was OPEN with
\* its timeout elapsed, and the circuit is still OPEN
C18_Witness ==
    /\ last.op = "circuit_breaker_status"
    /\ last.status_code = 503
    /\ state = STATE_OPEN
    /\ ~StillOpen(opened_at, now)
    /\ calls = fail_max

\* C19: an authenticated GET of the status endpoint is answered 200 with the
\* current state and the failure count in every circuit state, OPEN included.
C19_StatusAlwaysAnswers ==
    [][(Dispatched /\ last'.op = "circuit_breaker_status" /\ last'.status_code # 401)
        => /\ last'.status_code = 200
           /\ last'.current_state = state
           /\ last'.failure_count = fail_counter]_vars

\* what the views answer in the current state when a request reaches them
ViewResponses ==
    { Responded("ServiceStatusView.get", 200, IF configured THEN "active" ELSE "inactive"),
      Responded("circuit_breaker_status", 401, "Unauthorized"),
      [Responded("circuit_breaker_status", 200, "-")
          EXCEPT !.current_state = state, !.failure_count = fail_counter] }

\* C27: CircuitBreakerMiddleware answers 503 without invoking the view exactly
\* when the state it reads is OPEN; in CLOSED and HALF_OPEN the request reaches
\* the view and the view's response is returned unchanged.
C27_RejectsExactlyWhenOpen ==
    [][Answered =>
        IF state = STATE_OPEN
        THEN /\ last'.status_code = 503
             /\ last'.info = "Service temporarily unavailable"
             /\ last' \notin ViewResponses
        ELSE /\ last'.status_code # 503
             /\ last' \in ViewResponses]_vars

\* C27 witness: the status endpoint has answered 200 while a trial was running
\* (HALF_OPEN)
C27_Witness ==
    /\ last.op = "circuit_breaker_status"
    /\ last.status_code = 200
    /\ last.current_state = STATE_HALF_OPEN
    /\ state = STATE_HALF_OPEN
    /\ trial[1] /\ pc[1] = "func"

(***************************************************************************)
(* The outcome of a permitted call (checked under SpecBreaker).            *)
(***************************************************************************)
\* C20: a call the circuit permitted gives its caller exactly what the unit
\* of work returned or raised, the failure that trips the circuit included;
\* the circuit's own answer is given only to calls it denied.
C20_OutcomePropagated ==
    [][\A t \in Threads :
        Finished(t) => result'[t] \in Returns \cup Raisable]_vars

(***************************************************************************)
(* Properties of the outbound calls (checked under SpecAttempts).          *)
(***************************************************************************)
\* C21: there is no automatic retry. One call of send_text_message or
\* send_template_message makes at most one HTTP call to the provider whatever
\* its outcome; a guarded call runs its unit of work (one HTTP call) only from
\* its own permission check, ends when the unit of work ends, and a permission
\* check is reached only by a new call.
C21_NoAutomaticRetry ==
    [][/\ (Dispatched /\ last'.op \in SendOps) => last'.http <= 1
       /\ \A t \in Threads :
            /\ (pc[t] # "func" /\ pc'[t] = "func") => pc[t] = "waiting"
            /\ (pc[t] = "func" /\ pc'[t] # "func") => pc'[t] = "idle"
            /\ (pc[t] # "waiting" /\ pc'[t] = "waiting")
                  => (pc[t] = "idle" /\ calls' = calls + 1)]_vars

\* C21 witness: a send whose HTTP call timed out has returned, and the guarded
\* call of caller 1 has ended with a timeout
C21_Witness ==
    /\ last.op \in SendOps
    /\ last.http = 1
    /\ last.provider = "Timeout"
    /\ ~last.ok
    /\ pc[1] = "idle"
    /\ result[1] = "Timeout"

(***************************************************************************)
(* Properties of the guard's bookkeeping (checked under SpecBreaker and    *)
(* SpecBreakerEnv).                                                        *)
(***************************************************************************)
\* C22: the guard holds its lock only for the permission check and for
\* recording the outcome: no caller holds the lock while a unit of work
\* executes (so that two guarded calls can execute at the same time).
C22_LockFreeWhileExecuting ==
    \A t \in Threads : pc[t] = "func" => lock = NoThread

\* C23: the failure counter is the number of consecutive units of work that
\* failed since the last one that succeeded.
C23_CounterIsConsecutiveFailures ==
    fail_counter = consecFail

\* C24: with a configured failure threshold N the circuit is no longer CLOSED
\* once N consecutive failures have been counted.
C24_ConfiguredThresholdOpens ==
    (fail_counter >= failure_threshold /\ InFlight = {}) => state # STATE_CLOSED

(***************************************************************************)
(* Properties of the send operations' error reports (checked under         *)
(* SpecRecipients and SpecDispatch).                                       *)
(***************************************************************************)
\* C25: a send to a phone number that does not match the model's format is
\* rejected before any provider call: it fails, makes no HTTP call, and the
\* circuit is unchanged.
C25_MalformedRecipientRejected ==
    [][(Dispatched /\ last'.op \in SendOps /\ ~phone_regex(last'.phone_number))
        => (~last'.ok /\ last'.http = 0 /\ breaker' = breaker)]_vars

\* the reports a send can return for a message the provider did not accept
RejectedReports ==
    {CreateAndSend("text", o, s).info : o \in ProviderOutcomes \ {"200"}, s \in BOOLEAN}

\* C26: when the provider accepted a message and writing the record then
\* failed (the record is left pending), the send returns a report it never
\* returns for a message the provider rejected.
C26_PersistenceFailureDistinct ==
    [][(/\ Dispatched /\ last'.op \in SendOps
        /\ last'.provider = "200" /\ last'.msg # 0
        /\ messages'[last'.msg].status = "pending")
        => last'.info \notin RejectedReports]_vars

(***************************************************************************)
(* Recovery under a steady stream of inbound requests (checked under       *)
(* SpecRecovery).                                                          *)
(***************************************************************************)
\* C28: when the circuit is OPEN, its timeout has elapsed and inbound requests
\* keep arriving, the circuit does not stay OPEN for ever.
C28_RequestsLeadToTrial ==
    (state = STATE_OPEN /\ ~StillOpen(opened_at, now)) ~> (state # STATE_OPEN)

(***************************************************************************)
(* Properties of ResendMessageView (checked under SpecResend).             *)
(***************************************************************************)
\* a resend request has reached the view and found its message
Resent ==
    /\ Dispatched
    /\ last'.op = "ResendMessageView.post"
    /\ last'.status_code \notin {401, 404, 503}

\* the resend created no record and made no provider call
NothingSent == messages' = messages /\ last'.http = 0

\* the resend created exactly one record, a copy of the message pk addressed
\* to the same number, with at most one provider call, and left the others alone
SentAnew(pk) ==
    /\ Len(messages') = Len(messages) + 1
    /\ SubSeq(messages', 1, Len(messages)) = messages
    /\ last'.msg = Len(messages')
    /\ messages'[last'.msg].phone_number = messages[pk].phone_number
    /\ messages'[last'.msg].template = messages[pk].template
    /\ messages'[last'.msg].variables = messages[pk].variables
    /\ last'.http = IF configured THEN 1 ELSE 0
    /\ messages'[pk].status = "failed"

Verified ==
    /\ Dispatched
    /\ last'.op = "WhatsAppWebhookView.get"
    /\ last'.status_code # 503
    /\ \A i \in 1..3 : last'.requests[i] # ""

\* C30: a verification request is answered with the challenge exactly when its
\* mode is "subscribe" and its token is the configured verify token; any other
\* request, and every request when no token is configured, gets no challenge
\* and is answered 403.
C30_ChallengeIffVerified ==
    [][Verified =>
        IF /\ last'.requests[1] = "subscribe"
           /\ last'.requests[2] = verify_token
           /\ verify_token # ""
        THEN last'.status_code = 200 /\ last'.info = last'.requests[3]
        ELSE last'.status_code = 403 /\ last'.info # last'.requests[3]]_vars

====
